---- MODULE Spec2Model ----
(***************************************************************************)
(* Analytics dynamic-config fetching (packages/analytics/src/get-config.ts)*)
(* and per-identity initialization (factory.ts, initialize-ids,            *)
(* functions.ts) of the Firebase JS SDK, as a state machine.               *)
(*                                                                         *)
(* SpecRetry : concurrent top-level fetchDynamicConfigWithRetry calls, the *)
(*             shared appThrottleMetadata store, timers and the clock.     *)
(* SpecInit  : factory(), initializeGAId(), the analytics instance methods *)
(*             and the calls that reach the unwrapped gtag function.       *)
(***************************************************************************)
EXTENDS Integers, Sequences, FiniteSets, TLC

\* ------------------------------------------------------------------ bounds

\* The top-level fetchDynamicConfigWithRetry calls of one behaviour.
Calls == {1, 2}
\* The clock advances at most MaxTicks times, TickMillis milliseconds each.
MaxTicks == 3
TickMillis == 30000
\* Fetch attempts one top-level call may dispatch.
MaxFetches == 2

\* --------------------------------------------------------------- constants

FETCH_TIMEOUT_MILLIS == 60 * 1000

\* The value JavaScript yields for a missing property.
Undefined == "undefined"

\* app.options of the FirebaseApp objects handed to the SDK.  An empty string
\* is a missing (falsy) option.
AppIds == {"app1", "app2"}
FirebaseApps ==
    [appId : AppIds, apiKey : {"key"}]
        \cup {[appId |-> "app1", apiKey |-> ""], [appId |-> "", apiKey |-> "key"]}

HttpStatuses == {200, 400, 429, 500, 503, 504}
MeasurementIds == {"G-1", "G-2"}

\* No httpStatus / throttleEndTimeMillis property on an error object.
NoValue == -1

\* ------------------------------------------------------------------ errors

ErrorOf(name, code, httpStatus, throttleEndTimeMillis) ==
    [name |-> name, code |-> code, httpStatus |-> httpStatus,
     throttleEndTimeMillis |-> throttleEndTimeMillis]

NoError == ErrorOf("none", "none", NoValue, NoValue)

\* throw new Error('no api key')
NoApiKeyError == ErrorOf("Error", "no api key", NoValue, NoValue)

\* ERROR_FACTORY.create(AnalyticsError.FETCH_THROTTLE, { throttleEndTimeMillis })
FetchThrottleError(throttleEndTimeMillis) ==
    ErrorOf("FirebaseError", "fetch-throttle", NoValue, throttleEndTimeMillis)

\* What the host's fetch() or Response.json() may reject with: a TypeError
\* (network failure), a SyntaxError (body is not JSON), or, from a fetch
\* implementation that reports HTTP failures by throwing, a FirebaseError
\* that carries the status.
NetworkError == ErrorOf("TypeError", "network", NoValue, NoValue)
JsonSyntaxError == ErrorOf("SyntaxError", "json", NoValue, NoValue)
HttpStatusError(httpStatus) == ErrorOf("FirebaseError", "http", httpStatus, NoValue)

\* No error taken for retriable.
isRetriableError_Never(e) == FALSE

\* Every FirebaseError taken for retriable, whatever its status.
isRetriableError_AnyStatus(e) == e.name = "FirebaseError"

\* isRetriableError(e)
isRetriableError(e) ==
    IF e.name # "FirebaseError"
    THEN FALSE
    ELSE \/ e.httpStatus = 429
         \/ e.httpStatus = 500
         \/ e.httpStatus = 503
         \/ e.httpStatus = 504

\* --------------------------------------------------- the config endpoint

\* A DynamicConfig as parsed from a response body.
DynamicConfigOf(measurementId, appId) ==
    [measurementId |-> measurementId, appId |-> appId]

NoConfig == DynamicConfigOf("none", "none")

\* What one network round trip can end in.  The endpoint answers with a
\* status and a body: a config document with status 200, an error document
\* (JSON without measurementId, or not JSON at all) otherwise.  Or fetch()
\* itself rejects.
FetchOutcomes(appId, measurementIds) ==
    {[kind |-> "response", status |-> 200, json |-> TRUE,
      body |-> DynamicConfigOf(m, appId), error |-> NoError] : m \in measurementIds}
    \cup
    {[kind |-> "response", status |-> s, json |-> j,
      body |-> DynamicConfigOf(Undefined, Undefined), error |-> NoError] :
        s \in HttpStatuses \ {200}, j \in BOOLEAN}
    \cup
    {[kind |-> "rejects", status |-> NoValue, json |-> FALSE,
      body |-> NoConfig, error |-> e] :
        e \in {NetworkError} \cup {HttpStatusError(s) : s \in HttpStatuses \ {200}}}

Settled(ok, value, error) == [ok |-> ok, value |-> value, error |-> error]

\* fetchDynamicConfig(app), from the point where fetch() settles:
\*   const response = await fetch(appUrl, request);  return response.json();
\* The status of the response is not looked at.
fetchDynamicConfig(outcome) ==
    IF outcome.kind = "rejects"
    THEN Settled(FALSE, NoConfig, outcome.error)
    ELSE IF outcome.json
         THEN Settled(TRUE, outcome.body, NoError)
         ELSE Settled(FALSE, NoConfig, JsonSyntaxError)

\* if (!app.options.appId) throw new Error('no api key')
MissingOptions_AppIdOnly(app) == app.appId = ""

\* if (!app.options.apiKey || !app.options.appId) throw new Error('no api key')
MissingOptions(app) == app.apiKey = "" \/ app.appId = ""

\* ------------------------------------------------------- exponential backoff

BackoffBaseMillis == 30000
BackoffCeilingMillis == 120000

Min(a, b) == IF a < b THEN a ELSE b
Max(a, b) == IF a > b THEN a ELSE b

RECURSIVE Pow2(_)
Pow2(n) == IF n <= 0 THEN 1 ELSE 2 * Pow2(n - 1)

\* calculateBackoffMillis(backoffCount): exponential in the count, up to a
\* ceiling.  The random jitter factor is held at its midpoint.
calculateBackoffMillis(backoffCount) ==
    Min(BackoffBaseMillis * Pow2(backoffCount), BackoffCeilingMillis)

\* ------------------------------------------------------------------- state

VARIABLES
    now,                  \* Date.now()
    appThrottleMetadata,  \* { [appId]: ThrottleMetadata }, keyed by stored ids
    pc,                   \* per call: idle, waiting, attempting, resolved, rejected
    callApp,              \* per call: the FirebaseApp it was called with
    attempt,              \* per call: the ThrottleMetadata argument of the running attempt
    listeners,            \* per call: signal.listeners, one entry per delay armed
    watchdog,             \* per call: the setTimeout(..., FETCH_TIMEOUT_MILLIS) timer
    result,               \* per call: what the returned promise settled with
    fetches,              \* per call: fetch attempts dispatched
    lastSettled,          \* the fetch attempt that settled in the latest step, if one did
    persisted,            \* per call: the metadata it stored, in order
    start,                \* per call: the metadata it started from, and when
    lastClear             \* per appId: the latest write to its entry: stored, success, fatal

VARIABLES
    globalInitDone,             \* factory.ts: page-level setup has run
    globalSetups,               \* times the page-level setup has run
    initializationPromisesMap,  \* { [appId]: Promise<string> }, keyed by registered ids
    dynamicConfigPromisesList,  \* the config promises pushed, by appId
    measurementIdToAppId,       \* { [measurementId]: appId }
    configPromise,              \* per appId: the promise fetchDynamicConfig(app) returned
    fidPromise,                 \* per appId: the promise installations.getId() returned
    answered,                   \* per appId: what the endpoint answered its config fetch with
    gtagCoreCalls,              \* the calls the unwrapped gtag function has received
    held,                       \* commands inside the wrapped gtag function, not yet forwarded
    thens,                      \* callbacks the instance methods attached with .then
    loggedErrors,               \* logger.error calls
    methodCalls,                \* instance method calls made
    windowFlags,                \* window['ga-disable-<measurementId>'], by measurementId
    caught                      \* times a method's .catch callback has run

initVars == <<globalInitDone, globalSetups, initializationPromisesMap,
              dynamicConfigPromisesList, measurementIdToAppId, configPromise,
              fidPromise, answered, gtagCoreCalls, held, thens, loggedErrors,
              methodCalls, windowFlags, caught>>

VARIABLES
    dataLayerName,              \* factory.ts: name of the window data layer array
    gtagName,                   \* factory.ts: name of the window gtag function
    thrown                      \* what the last factory or settings call threw

pageVars == <<dataLayerName, gtagName, thrown>>

VARIABLES
    documents,                  \* the remote document store, by document key
    lastSnapshot,               \* what the last call returned, if it was getDocument
    lastWrite,                  \* per document key: the last setDocument call
    written                     \* per document key: what the writes so far amount to

liteVars == <<documents, lastSnapshot, lastWrite, written>>

\* AnalyticsAbortSignal, taken by itself (get-config.ts 194-202)
VARIABLES
    signalListeners,            \* the signal's listeners array
    aborts,                     \* abort() calls so far
    invocations,                \* listener invocations so far, in order
    lengthAtAbort               \* per abort() call: listeners registered by then

signalVars == <<signalListeners, aborts, invocations, lengthAtAbort>>

retryVars == <<now, appThrottleMetadata, pc, callApp, attempt, listeners,
               watchdog, result, fetches, lastSettled, persisted, start, lastClear>>

ThrottleMetadataOf(backoffCount, throttleEndTimeMillis) ==
    [backoffCount |-> backoffCount, throttleEndTimeMillis |-> throttleEndTimeMillis]

NoApp == [appId |-> "", apiKey |-> ""]
NoWatchdog == [state |-> "none", due |-> 0, pcWhenFired |-> "none", fetchesWhenFired |-> 0]
NoStart == [backoffCount |-> 0, throttleEndTimeMillis |-> 0, at |-> 0, after |-> "none"]

\* delete obj[key]
Delete(obj, key) == [k \in (DOMAIN obj) \ {key} |-> obj[k]]
\* obj[key] = value
Put(obj, key, value) ==
    [k \in (DOMAIN obj) \cup {key} |-> IF k = key THEN value ELSE obj[k]]

\* The statuses the endpoint uses for transient failures.
TransientStatuses == {429, 500, 503, 504}

\* What the endpoint answered: with 200, with a transient status, or other.
StatusClass(status) ==
    IF status = NoValue THEN "none"
    ELSE IF status = 200 THEN "ok"
    ELSE IF status \in TransientStatuses THEN "transient"
    ELSE "other"

\* The fetch attempt that settled in the latest step: whose it was, what the
\* endpoint answered and what fetchDynamicConfig threw.  NoneSettled when the
\* latest step was anything else.
SettledBy(c, outcome) ==
    [call |-> c, kind |-> outcome.kind, answer |-> StatusClass(outcome.status),
     error |-> fetchDynamicConfig(outcome).error]
NoneSettled == [call |-> 0, kind |-> "none", answer |-> "none", error |-> NoError]

\* Calls are numbered in the order they are made.
IsNextCall(c) == pc[c] = "idle" /\ \A d \in Calls : d < c => pc[d] # "idle"

RetryInit ==
    /\ now = 0
    /\ appThrottleMetadata = << >>
    /\ pc = [c \in Calls |-> "idle"]
    /\ callApp = [c \in Calls |-> NoApp]
    /\ attempt = [c \in Calls |-> ThrottleMetadataOf(0, 0)]
    /\ listeners = [c \in Calls |-> << >>]
    /\ watchdog = [c \in Calls |-> NoWatchdog]
    /\ result = [c \in Calls |-> Settled(FALSE, NoConfig, NoError)]
    /\ fetches = [c \in Calls |-> 0]
    /\ lastSettled = NoneSettled
    /\ persisted = [c \in Calls |-> << >>]
    /\ start = [c \in Calls |-> NoStart]
    /\ lastClear = [a \in AppIds |-> "never"]

\* ------------------------------------------------------- AbortableDelay

\* The wait without its normalisation to zero.
setAbortableTimeout_Raw(throttleEndTimeMillis, nowMillis) ==
    [throttleEndTimeMillis |-> throttleEndTimeMillis,
     backoffMillis |-> throttleEndTimeMillis - nowMillis,
     due |-> throttleEndTimeMillis,
     state |-> "pending",
     timeout |-> "armed",
     error |-> NoError]

\* setAbortableTimeout(signal, throttleEndTimeMillis): the timer and the
\* listener it registers.  due is when setTimeout(resolve, backoffMillis)
\* may run resolve.
setAbortableTimeout(throttleEndTimeMillis, nowMillis) ==
    [throttleEndTimeMillis |-> throttleEndTimeMillis,
     backoffMillis |-> Max(throttleEndTimeMillis - nowMillis, 0),
     due |-> nowMillis + Max(throttleEndTimeMillis - nowMillis, 0),
     state |-> "pending",
     timeout |-> "armed",
     error |-> NoError]

\* A timer that runs without settling the delay.
ResolveDelay_StaysPending(d) == [d EXCEPT !.timeout = "fired"]

\* The timer runs resolve.
ResolveDelay(d) == [d EXCEPT !.state = "resolved", !.timeout = "fired"]

\* The listener without its clearTimeout.
AbortListener_TimerLeft(d) ==
    IF d.state = "pending"
    THEN [d EXCEPT !.state = "rejected",
                   !.error = FetchThrottleError(d.throttleEndTimeMillis)]
    ELSE d

\* The listener rejecting whatever state the delay is in.
AbortListener_Unsettles(d) ==
    [d EXCEPT !.state = "rejected", !.timeout = "cleared",
              !.error = FetchThrottleError(d.throttleEndTimeMillis)]

\* The listener setAbortableTimeout registered: clearTimeout(timeout), then
\* reject(FETCH_THROTTLE).  Rejecting a settled promise does nothing, and
\* clearing a timer that has run does nothing.
AbortListener(d) ==
    IF d.state = "pending"
    THEN [d EXCEPT !.state = "rejected", !.timeout = "cleared",
                   !.error = FetchThrottleError(d.throttleEndTimeMillis)]
    ELSE d

\* AnalyticsAbortSignal.abort(): this.listeners.forEach(listener => listener())
abort(ls) == [i \in 1..Len(ls) |-> AbortListener(ls[i])]

PendingDelays(ls) == {i \in 1..Len(ls) : ls[i].state = "pending"}

\* ------------------------------------------------------- RetryOrchestrator

\* The success path without its delete.
ClearOnSuccess_Kept(store, appId) == store

\* delete appThrottleMetadata[app.options.appId] after a success (121).
ClearOnSuccess(store, appId) == Delete(store, appId)

\* delete appThrottleMetadata[app.options.appId] before rethrowing (126).
ClearOnFatal(store, appId) == Delete(store, appId)

\* The increment forgotten.
IncrementBackoff_Same(backoffCount, nowMillis, backoffMillis) ==
    ThrottleMetadataOf(backoffCount, nowMillis + backoffMillis)

\* The metadata a retriable failure computes (get-config.ts 131-134).
IncrementBackoff(backoffCount, nowMillis, backoffMillis) ==
    ThrottleMetadataOf(backoffCount + 1, nowMillis + backoffMillis)

\* fetchDynamicConfigWithRetry(app) when an option is missing: it throws
\* before anything else happens.
FetchWithRetryMissingOptions(c, app) ==
    /\ IsNextCall(c)
    /\ MissingOptions(app)
    /\ pc' = [pc EXCEPT ![c] = "rejected"]
    /\ callApp' = [callApp EXCEPT ![c] = app]
    /\ result' = [result EXCEPT ![c] = Settled(FALSE, NoConfig, NoApiKeyError)]
    /\ lastSettled' = NoneSettled
    /\ UNCHANGED <<now, appThrottleMetadata, attempt, listeners, watchdog,
                   fetches, persisted, start, lastClear>>
    /\ UNCHANGED initVars
    /\ UNCHANGED pageVars
    /\ UNCHANGED liteVars
    /\ UNCHANGED signalVars

\* A call that ignores what is stored.
InitialThrottleMetadata_Fresh(store, appId, nowMillis) ==
    ThrottleMetadataOf(0, nowMillis)

\* The metadata a top-level call starts from (get-config.ts 80-85).
InitialThrottleMetadata(store, appId, nowMillis) ==
    IF appId \in DOMAIN store
    THEN store[appId]
    ELSE ThrottleMetadataOf(0, nowMillis)

\* A call that stores the metadata it starts from.
StoreAtStart_Created(store, appId, m) == Put(store, appId, m)

\* The store after a call has read it: the metadata the call starts from is
\* a local of the call, and nothing is assigned to the store
\* (get-config.ts 80-85).
StoreAtStart(store, appId, m) == store

\* fetchDynamicConfigWithRetry(app): reads the stored metadata, creates the
\* signal, arms the watchdog and runs attemptFetchDynamicConfigWithRetry up
\* to its first await, the delay.
FetchWithRetry(c, app) ==
    /\ IsNextCall(c)
    /\ ~MissingOptions(app)
    /\ LET m == InitialThrottleMetadata(appThrottleMetadata, app.appId, now)
       IN /\ attempt' = [attempt EXCEPT ![c] = m]
          /\ start' = [start EXCEPT ![c] =
                [backoffCount |-> m.backoffCount,
                 throttleEndTimeMillis |-> m.throttleEndTimeMillis,
                 at |-> now,
                 after |-> lastClear[app.appId]]]
          /\ listeners' = [listeners EXCEPT ![c] =
                <<setAbortableTimeout(m.throttleEndTimeMillis, now)>>]
          /\ appThrottleMetadata' = StoreAtStart(appThrottleMetadata, app.appId, m)
    /\ watchdog' = [watchdog EXCEPT ![c] =
            [state |-> "armed", due |-> now + FETCH_TIMEOUT_MILLIS,
             pcWhenFired |-> "none", fetchesWhenFired |-> 0]]
    /\ pc' = [pc EXCEPT ![c] = "waiting"]
    /\ callApp' = [callApp EXCEPT ![c] = app]
    /\ lastSettled' = NoneSettled
    /\ UNCHANGED <<now, result, fetches, persisted, lastClear>>
    /\ UNCHANGED initVars
    /\ UNCHANGED pageVars
    /\ UNCHANGED liteVars
    /\ UNCHANGED signalVars

\* The delay's timer fires: the delay resolves and the attempt goes on to
\* fetchDynamicConfig(app), which issues the request.
DelayElapses(c) ==
    /\ pc[c] = "waiting"
    /\ fetches[c] < MaxFetches
    /\ LET i == Len(listeners[c])
       IN /\ listeners[c][i].state = "pending"
          /\ listeners[c][i].timeout = "armed"
          /\ now >= listeners[c][i].due
          /\ listeners' = [listeners EXCEPT ![c][i] = ResolveDelay(@)]
    /\ pc' = [pc EXCEPT ![c] = "attempting"]
    /\ fetches' = [fetches EXCEPT ![c] = @ + 1]
    /\ lastSettled' = NoneSettled
    /\ UNCHANGED <<now, appThrottleMetadata, callApp, attempt, watchdog,
                   result, persisted, start, lastClear>>
    /\ UNCHANGED initVars
    /\ UNCHANGED pageVars
    /\ UNCHANGED liteVars
    /\ UNCHANGED signalVars

\* The request settles and fetchDynamicConfig returns: the stored metadata
\* is deleted and the config is returned (get-config.ts 118-123).
FetchSucceeds(c, outcome) ==
    /\ pc[c] = "attempting"
    /\ fetchDynamicConfig(outcome).ok
    /\ appThrottleMetadata' = ClearOnSuccess(appThrottleMetadata, callApp[c].appId)
    /\ lastClear' = [lastClear EXCEPT ![callApp[c].appId] = "success"]
    /\ pc' = [pc EXCEPT ![c] = "resolved"]
    /\ result' = [result EXCEPT ![c] = fetchDynamicConfig(outcome)]
    /\ lastSettled' = SettledBy(c, outcome)
    /\ UNCHANGED <<now, callApp, attempt, listeners, watchdog, fetches,
                   persisted, start>>
    /\ UNCHANGED initVars
    /\ UNCHANGED pageVars
    /\ UNCHANGED liteVars
    /\ UNCHANGED signalVars

\* fetchDynamicConfig throws an error that is not retriable: the stored
\* metadata is deleted and the error rethrown (get-config.ts 125-128).
FetchFailsFatally(c, outcome) ==
    /\ pc[c] = "attempting"
    /\ ~fetchDynamicConfig(outcome).ok
    /\ ~isRetriableError(fetchDynamicConfig(outcome).error)
    /\ appThrottleMetadata' = ClearOnFatal(appThrottleMetadata, callApp[c].appId)
    /\ lastClear' = [lastClear EXCEPT ![callApp[c].appId] = "fatal"]
    /\ pc' = [pc EXCEPT ![c] = "rejected"]
    /\ result' = [result EXCEPT ![c] = fetchDynamicConfig(outcome)]
    /\ lastSettled' = SettledBy(c, outcome)
    /\ UNCHANGED <<now, callApp, attempt, listeners, watchdog, fetches,
                   persisted, start>>
    /\ UNCHANGED initVars
    /\ UNCHANGED pageVars
    /\ UNCHANGED liteVars
    /\ UNCHANGED signalVars

\* The count read back from the store when there is an entry.
PreviousBackoffCount_FromStore(own, store, appId) ==
    IF appId \in DOMAIN store THEN store[appId].backoffCount ELSE own.backoffCount

\* The backoffCount a failed attempt goes on from: the one it was handed as
\* its argument (get-config.ts 105), the store is not read.
PreviousBackoffCount(own, store, appId) == own.backoffCount

\* fetchDynamicConfig throws a retriable error: new metadata is computed
\* from the attempt's own backoffCount, stored, and the next attempt starts
\* with its delay (get-config.ts 130-139, then 115).
FetchFailsRetriably(c, outcome) ==
    /\ pc[c] = "attempting"
    /\ ~fetchDynamicConfig(outcome).ok
    /\ isRetriableError(fetchDynamicConfig(outcome).error)
    /\ LET backoffCount == PreviousBackoffCount(attempt[c], appThrottleMetadata,
                                                callApp[c].appId)
           m == IncrementBackoff(backoffCount, now,
                                 calculateBackoffMillis(backoffCount))
       IN /\ appThrottleMetadata' = Put(appThrottleMetadata, callApp[c].appId, m)
          /\ attempt' = [attempt EXCEPT ![c] = m]
          /\ persisted' = [persisted EXCEPT ![c] = Append(@, m)]
          /\ listeners' = [listeners EXCEPT ![c] =
                Append(@, setAbortableTimeout(m.throttleEndTimeMillis, now))]
    /\ lastClear' = [lastClear EXCEPT ![callApp[c].appId] = "stored"]
    /\ pc' = [pc EXCEPT ![c] = "waiting"]
    /\ lastSettled' = SettledBy(c, outcome)
    /\ UNCHANGED <<now, callApp, watchdog, result, fetches, start>>
    /\ UNCHANGED initVars
    /\ UNCHANGED pageVars
    /\ UNCHANGED liteVars
    /\ UNCHANGED signalVars

\* What the attempt awaiting the delays sees after signal.abort(): the
\* rejection of a pending delay is thrown out of the await at line 115,
\* which no try block encloses, and out of every enclosing attempt.
AfterAbort(before, after, state, res) ==
    IF PendingDelays(before) # {}
    THEN [pc |-> "rejected",
          result |-> Settled(FALSE, NoConfig,
                             after[CHOOSE i \in PendingDelays(before) : TRUE].error)]
    ELSE [pc |-> state, result |-> res]

\* One signal for every call.
OnSignalOf_Shared(c) == Calls

\* The calls whose delays listen on the signal of call c: the signal is
\* created inside the call (get-config.ts 87) and handed to its own attempts
\* only.
OnSignalOf(c) == {c}

\* The watchdog timer fires: signal.abort() (get-config.ts 89-92).
WatchdogFires(c) ==
    /\ watchdog[c].state = "armed"
    /\ now >= watchdog[c].due
    /\ watchdog' = [watchdog EXCEPT ![c].state = "fired",
                                    ![c].pcWhenFired = pc[c],
                                    ![c].fetchesWhenFired = fetches[c]]
    /\ listeners' = [d \in Calls |->
            IF d \in OnSignalOf(c) THEN abort(listeners[d]) ELSE listeners[d]]
    /\ LET next(d) == AfterAbort(listeners[d], abort(listeners[d]), pc[d], result[d])
       IN /\ pc' = [d \in Calls |->
                IF d \in OnSignalOf(c) THEN next(d).pc ELSE pc[d]]
          /\ result' = [d \in Calls |->
                IF d \in OnSignalOf(c) THEN next(d).result ELSE result[d]]
    /\ lastSettled' = NoneSettled
    /\ UNCHANGED <<now, appThrottleMetadata, callApp, attempt, fetches,
                   persisted, start, lastClear>>
    /\ UNCHANGED initVars
    /\ UNCHANGED pageVars
    /\ UNCHANGED liteVars
    /\ UNCHANGED signalVars

\* A timer whose time has come and whose callback can run.
TimerDue(c) ==
    \/ watchdog[c].state = "armed" /\ now >= watchdog[c].due
    \/ /\ pc[c] = "waiting"
       /\ fetches[c] < MaxFetches
       /\ now >= listeners[c][Len(listeners[c])].due

\* Time passes.  Timers run when they are due: the clock does not pass one.
Tick ==
    /\ now < MaxTicks * TickMillis
    /\ \A c \in Calls : ~TimerDue(c)
    /\ now' = now + TickMillis
    /\ lastSettled' = NoneSettled
    /\ UNCHANGED <<appThrottleMetadata, pc, callApp, attempt, listeners, watchdog,
                   result, fetches, persisted, start, lastClear>>
    /\ UNCHANGED initVars
    /\ UNCHANGED pageVars
    /\ UNCHANGED liteVars
    /\ UNCHANGED signalVars

\* ------------------------------------------- initialization: bounds, values

\* Instance method calls in one behaviour.
MaxMethodCalls == 1

\* The id installations.getId() yields for the installation of an app.
FidOf == [a \in AppIds |-> IF a = "app1" THEN "fid-1" ELSE "fid-2"]

vars == <<now, appThrottleMetadata, pc, callApp, attempt, listeners, watchdog,
          result, fetches, lastSettled, persisted, start, lastClear,
          globalInitDone, globalSetups, initializationPromisesMap,
          dynamicConfigPromisesList, measurementIdToAppId, configPromise,
          fidPromise, answered, gtagCoreCalls, held, thens, loggedErrors,
          methodCalls, windowFlags, caught, dataLayerName, gtagName, thrown,
          documents, lastSnapshot, lastWrite, written,
          signalListeners, aborts, invocations, lengthAtAbort>>

\* Promise<DynamicConfig>
NoConfigPromise == [state |-> "none", value |-> NoConfig, error |-> NoError]
PendingConfigPromise == [state |-> "pending", value |-> NoConfig, error |-> NoError]
ConfigPromiseOf(settled) ==
    [state |-> IF settled.ok THEN "resolved" ELSE "rejected",
     value |-> settled.value, error |-> settled.error]

\* Promise<string>: the installation id, or the initialization promise with
\* the measurement id initializeGAId returns.
NoStringPromise == [state |-> "none", value |-> ""]
PendingStringPromise == [state |-> "pending", value |-> ""]
ResolvedStringPromise(value) == [state |-> "resolved", value |-> value]
RejectedStringPromise == [state |-> "rejected", value |-> ""]

\* ------------------------------------------------- documents (firestore lite)

\* DocumentReference._key
DocumentKeys == {"doc1", "doc2"}

FieldNames == {"foo", "bar"}
FieldValues == {"foo", "bar"}

\* firestore.DocumentData: an object with string fields.
DocumentData == UNION {[names -> FieldValues] : names \in SUBSET FieldNames}

\* firestore.SetOptions: {} or { merge: true }; mergeFields is not given.
SetOptions == [merge : BOOLEAN, mergeFields : {Undefined}]

\* MaybeDocument as the datastore returns it: a Document, or a NoDocument
\* for a key nothing is stored under.
NoDocument == [type |-> "NoDocument"]
Document(fields) == [type |-> "Document", fields |-> fields]

Null == [type |-> "null"]

\* UserDataReader: user data to the fields of a proto document.
ToProtoFields(userData) ==
    [name \in DOMAIN userData |-> [stringValue |-> userData[name]]]

\* UserDataReader.parseSetData: the whole document is written.
parseSetData(userData) ==
    [kind |-> "set", fieldMask |-> {}, fields |-> ToProtoFields(userData)]

\* UserDataReader.parseMergeData: the fields of the data are written.
parseMergeData(userData) ==
    [kind |-> "patch", fieldMask |-> DOMAIN userData,
     fields |-> ToProtoFields(userData)]

\* options.merge || options.mergeFields taken as never true.
ParsesAsMerge_Never(options) == FALSE

\* options.merge || options.mergeFields taken as always true.
ParsesAsMerge_Always(options) == TRUE

\* options.merge || options.mergeFields
ParsesAsMerge(options) == options.merge \/ options.mergeFields # Undefined

\* invokeCommitRpc(datastore, parsed.toMutations(key, Precondition.none())):
\* what is stored under the key afterwards.
Commit(maybeDocument, parsed) ==
    LET old == IF maybeDocument.type = "Document" THEN maybeDocument.fields ELSE << >>
    IN IF parsed.kind = "set"
       THEN Document(parsed.fields)
       ELSE Document([name \in DOMAIN old \cup parsed.fieldMask |->
                        IF name \in parsed.fieldMask
                        THEN parsed.fields[name] ELSE old[name]])

\* UserDataWriter.convertValue(document.toProto())
convertValue(fields) == [name \in DOMAIN fields |-> fields[name].stringValue]

\* new DocumentSnapshot(firestore, key, maybeDocument) without the
\* instanceof test.
DocumentSnapshot_Unchecked(key, maybeDocument) ==
    [_key |-> key, _document |-> maybeDocument]

\* new DocumentSnapshot(firestore, key,
\*     maybeDocument instanceof Document ? maybeDocument : null)
DocumentSnapshot(key, maybeDocument) ==
    [_key |-> key,
     _document |-> IF maybeDocument.type = "Document" THEN maybeDocument ELSE Null]

NoSnapshot == [_key |-> "none", _document |-> Null]

\* get exists(): this._document !== null
exists(snapshot) == snapshot._document # Null

\* What data() returns: undefined, or the converted fields.
UndefinedData == [defined |-> FALSE]
DefinedData(value) == [defined |-> TRUE, value |-> value]

\* data()
data(snapshot) ==
    IF snapshot._document = Null
    THEN UndefinedData
    ELSE DefinedData(convertValue(snapshot._document.fields))

NoWrite == [kind |-> "none", data |-> << >>]

\* The document a merge write of userData leaves where old was: the fields
\* of both, those of userData winning.
Merged(old, userData) ==
    [name \in DOMAIN old \cup DOMAIN userData |->
        IF name \in DOMAIN userData THEN userData[name] ELSE old[name]]

LiteInit ==
    /\ documents = [key \in DocumentKeys |-> NoDocument]
    /\ lastSnapshot = NoSnapshot
    /\ lastWrite = [key \in DocumentKeys |-> NoWrite]
    /\ written = [key \in DocumentKeys |-> UndefinedData]

\* setDocument(reference, data, options), awaited.
SetDocument(key, userData, options) ==
    /\ LET parsed == IF ParsesAsMerge(options)
                     THEN parseMergeData(userData) ELSE parseSetData(userData)
       IN documents' = [documents EXCEPT ![key] = Commit(@, parsed)]
    /\ lastSnapshot' = NoSnapshot
    /\ lastWrite' = [lastWrite EXCEPT ![key] =
            [kind |-> IF options.merge THEN "merge" ELSE "set", data |-> userData]]
    /\ written' = [written EXCEPT ![key] =
            IF options.merge /\ @.defined
            THEN DefinedData(Merged(@.value, userData))
            ELSE DefinedData(userData)]
    /\ UNCHANGED <<retryVars, initVars, pageVars>>
    /\ UNCHANGED signalVars

\* getDocument(reference), awaited.
GetDocument(key) ==
    /\ lastSnapshot' = DocumentSnapshot(key, documents[key])
    /\ UNCHANGED <<documents, lastWrite, written>>
    /\ UNCHANGED <<retryVars, initVars, pageVars>>
    /\ UNCHANGED signalVars

\* The call returned.
NothingThrown == "none"

InitInit ==
    /\ globalInitDone = FALSE
    /\ globalSetups = 0
    /\ initializationPromisesMap = << >>
    /\ dynamicConfigPromisesList = << >>
    /\ measurementIdToAppId = << >>
    /\ configPromise = [a \in AppIds |-> NoConfigPromise]
    /\ fidPromise = [a \in AppIds |-> NoStringPromise]
    /\ answered = [a \in AppIds |-> "none"]
    /\ gtagCoreCalls = << >>
    /\ held = << >>
    /\ thens = << >>
    /\ loggedErrors = 0
    /\ methodCalls = 0
    /\ windowFlags = << >>
    /\ caught = 0
    /\ dataLayerName = "dataLayer"
    /\ gtagName = "gtag"
    /\ thrown = NothingThrown

\* ------------------------------------------------- AnalyticsAbortSignal

\* Listeners registered on one signal, and abort() calls made on it.
MaxListeners == 3
MaxAborts == 2

\* The functions handed to addEventListener.
ListenerIds == {"listenerA", "listenerB"}

\* new AnalyticsAbortSignal(): listeners = []
SignalInit ==
    /\ signalListeners = << >>
    /\ aborts = 0
    /\ invocations = << >>
    /\ lengthAtAbort = << >>

\* A signal whose abort() forgets the listeners it has run.
ListenersAfterAbort_Cleared(ls) == << >>

\* abort() reads this.listeners and leaves it as it is.
ListenersAfterAbort(ls) == ls

\* this.listeners.forEach(listener => listener()): one invocation per
\* element, from the first to the last.
ForEachListener(ls, call) ==
    [i \in 1..Len(ls) |-> [listener |-> ls[i], position |-> i, call |-> call]]

\* addEventListener(listener): this.listeners.push(listener)
AddEventListener(listener) ==
    /\ Len(signalListeners) < MaxListeners
    /\ signalListeners' = Append(signalListeners, listener)
    /\ UNCHANGED <<aborts, invocations, lengthAtAbort>>
    /\ UNCHANGED <<retryVars, initVars, pageVars, liteVars>>

\* abort()
Abort ==
    /\ aborts < MaxAborts
    /\ aborts' = aborts + 1
    /\ invocations' = invocations \o ForEachListener(signalListeners, aborts + 1)
    /\ signalListeners' = ListenersAfterAbort(signalListeners)
    /\ lengthAtAbort' = Append(lengthAtAbort, Len(signalListeners))
    /\ UNCHANGED <<retryVars, initVars, pageVars, liteVars>>

Init == RetryInit /\ InitInit /\ LiteInit /\ SignalInit

\* ------------------------------------------------------ the gtag function

\* One call of the gtag function: gtag(command, target, params).  by is the
\* identity whose initialization or whose analytics instance made the call.
GtagCall(command, target, params, by) ==
    [command |-> command, target |-> target, params |-> params, by |-> by]

\* An object literal without properties.
EmptyParams == << >>

\* { [GA_FID_KEY]: fid, [ORIGIN_KEY]: 'firebase', update: true }
IdentityParams(fid) == [firebase_id |-> fid, origin |-> "firebase", update |-> TRUE]

\* initializeGAId with the config call left out.
InitializeGAIdCalls_JsOnly(appId, dynamicConfig, fid) ==
    <<GtagCall("js", "date", EmptyParams, appId)>>

\* initializeGAId passing the ids the wrong way round.
InitializeGAIdCalls_Swapped(appId, dynamicConfig, fid) ==
    <<GtagCall("js", "date", EmptyParams, appId),
      GtagCall("config", fid, IdentityParams(dynamicConfig.measurementId), appId)>>

\* The calls initializeGAId makes on gtagCore once Promise.all has resolved
\* with [dynamicConfig, fid] (part_001 197-206).
InitializeGAIdCalls(appId, dynamicConfig, fid) ==
    <<GtagCall("js", "date", EmptyParams, appId),
      GtagCall("config", dynamicConfig.measurementId, IdentityParams(fid), appId)>>

\* ({ measurementId }) => ... applied to the value a promise resolved with.
\* The initialization promise resolves with a string, which has no such
\* property.
MeasurementIdProperty(value) ==
    IF value.type = "config" THEN value.config.measurementId ELSE Undefined

StringValue(string) == [type |-> "string", string |-> string]

Methods == {"logEvent", "setCurrentScreen", "setUserId", "setUserProperties"}

\* The global branch sending what the other branch sends.
GlobalCommand_Addressed(method, appId) ==
    IF method = "logEvent"
    THEN GtagCall("event", "eventName", [send_to |-> Undefined], appId)
    ELSE GtagCall("config", Undefined, [update |-> TRUE], appId)

\* The command a method sends with options.global set (functions.ts 43, 73,
\* 99, 125-130).
GlobalCommand(method, appId) ==
    IF method = "logEvent"
    THEN GtagCall("event", "eventName", EmptyParams, appId)
    ELSE IF method = "setCurrentScreen"
    THEN GtagCall("set", [screen_name |-> "screenName"], EmptyParams, appId)
    ELSE IF method = "setUserId"
    THEN GtagCall("set", [user_id |-> "id"], EmptyParams, appId)
    ELSE GtagCall("set", [k \in {"user_properties.key"} |-> "value"], EmptyParams, appId)

\* The command a method's .then callback sends, given the measurementId it
\* destructured (functions.ts 46-53, 76-81, 102-107, 133-138).
ScopedCommand(method, measurementId, appId) ==
    IF method = "logEvent"
    THEN GtagCall("event", "eventName", [send_to |-> measurementId], appId)
    ELSE IF method = "setCurrentScreen"
    THEN GtagCall("config", measurementId,
                  [update |-> TRUE, screen_name |-> "screenName"], appId)
    ELSE IF method = "setUserId"
    THEN GtagCall("config", measurementId, [update |-> TRUE, user_id |-> "id"], appId)
    ELSE GtagCall("config", measurementId,
                  [update |-> TRUE, user_properties |-> [key |-> "value"]], appId)

\* The measurement id a command is addressed to, if it names one.
AddressedTo(call) ==
    IF call.command = "config" THEN call.target
    ELSE IF "send_to" \in DOMAIN call.params THEN call.params.send_to
    ELSE Undefined

\* The identities whose initialization a command has to wait for: the owner
\* of the measurement id it names, or every registered identity when it
\* names none that is known.
WaitsFor(call, idMap, promisesMap) ==
    IF AddressedTo(call) \in DOMAIN idMap /\ idMap[AddressedTo(call)] \in DOMAIN promisesMap
    THEN {idMap[AddressedTo(call)]}
    ELSE DOMAIN promisesMap

\* The wrapped gtag function is called: a set command goes straight to
\* gtagCore, an event or config command is held until the initializations it
\* waits for have completed.
wrappedGtag(call, core, heldCalls, idMap, promisesMap) ==
    IF call.command \in {"event", "config"}
    THEN [core |-> core,
          held |-> Append(heldCalls,
                          [call |-> call, waitsFor |-> WaitsFor(call, idMap, promisesMap)])]
    ELSE [core |-> Append(core, call), held |-> heldCalls]

Remove(seq, i) == [j \in 1..(Len(seq) - 1) |-> IF j < i THEN seq[j] ELSE seq[j + 1]]

\* ------------------------------------------------------------- factory

\* What fetchDynamicConfig(app) returns when called: a promise already
\* rejected when an option is missing, otherwise pending on the request.
StartFetchDynamicConfig(app) ==
    IF MissingOptions(app)
    THEN ConfigPromiseOf(Settled(FALSE, NoConfig, NoApiKeyError))
    ELSE PendingConfigPromise

\* Promise.all([dynamicConfigPromise, installations.getId()]) not waiting
\* for the installation id.
PromiseAll_ConfigOnly(config, fid) ==
    IF config.state = "rejected" THEN "rejected"
    ELSE IF config.state = "resolved" THEN "resolved"
    ELSE "pending"

\* Promise.all([dynamicConfigPromise, installations.getId()]): rejected once
\* either has rejected, resolved once both have resolved.
PromiseAll(config, fid) ==
    IF config.state = "rejected" \/ fid.state = "rejected" THEN "rejected"
    ELSE IF config.state = "resolved" /\ fid.state = "resolved" THEN "resolved"
    ELSE "pending"

\* initializeGAId going on after a rejection as if nothing had failed.
initializeGAId_Unchecked(appId, config, fid, promise, core) ==
    IF promise.state # "pending" \/ PromiseAll(config, fid) = "pending"
    THEN [promise |-> promise, core |-> core]
    ELSE [promise |-> ResolvedStringPromise(config.value.measurementId),
          core |-> core \o InitializeGAIdCalls(appId, config.value, fid.value)]

\* initializeGAId from its await on.  While Promise.all is pending nothing
\* happens; when it has rejected the function throws; when it has resolved
\* the function calls gtagCore and returns the measurement id.
initializeGAId(appId, config, fid, promise, core) ==
    IF promise.state # "pending" \/ PromiseAll(config, fid) = "pending"
    THEN [promise |-> promise, core |-> core]
    ELSE IF PromiseAll(config, fid) = "rejected"
    THEN [promise |-> RejectedStringPromise, core |-> core]
    ELSE [promise |-> ResolvedStringPromise(config.value.measurementId),
          core |-> core \o InitializeGAIdCalls(appId, config.value, fid.value)]

\* if (!appId)
NoAppId_Never(app) == FALSE

NoAppId(app) == app.appId = ""

\* if (initializationPromisesMap[appId] != null)
AlreadyExists_Never(appId, promisesMap) == FALSE

\* An identity whose initialization has failed taken for unregistered.
AlreadyExists_UnlessRejected(appId, promisesMap) ==
    appId \in DOMAIN promisesMap /\ promisesMap[appId].state # "rejected"

AlreadyExists(appId, promisesMap) == appId \in DOMAIN promisesMap

\* if (!globalInitDone)
PageSetupRuns_Always(done) == TRUE

PageSetupRuns(done) == ~done

\* factory(app, installations) for an app without an appId:
\* throw ERROR_FACTORY.create(AnalyticsError.NO_GA_ID).
FactoryNoAppId(app) ==
    /\ NoAppId(app)
    /\ thrown' = "NO_GA_ID"
    /\ UNCHANGED <<dataLayerName, gtagName>>
    /\ UNCHANGED initVars
    /\ UNCHANGED retryVars
    /\ UNCHANGED liteVars
    /\ UNCHANGED signalVars

\* factory(app, installations) for an app whose appId is registered:
\* throw ERROR_FACTORY.create(AnalyticsError.ALREADY_EXISTS, { id: appId }).
FactoryAlreadyExists(app) ==
    /\ ~NoAppId(app)
    /\ AlreadyExists(app.appId, initializationPromisesMap)
    /\ thrown' = "ALREADY_EXISTS"
    /\ UNCHANGED <<dataLayerName, gtagName>>
    /\ UNCHANGED initVars
    /\ UNCHANGED retryVars
    /\ UNCHANGED liteVars
    /\ UNCHANGED signalVars

\* factory(app, installations) for an app with an appId that is not yet
\* registered: the page-level setup if it has not run, then initializeGAId,
\* which runs up to its await, or past it when fetchDynamicConfig has thrown.
Factory(app) ==
    /\ ~NoAppId(app)
    /\ ~AlreadyExists(app.appId, initializationPromisesMap)
    /\ globalInitDone' = TRUE
    /\ globalSetups' = IF PageSetupRuns(globalInitDone)
                       THEN globalSetups + 1 ELSE globalSetups
    /\ configPromise' = [configPromise EXCEPT ![app.appId] = StartFetchDynamicConfig(app)]
    /\ loggedErrors' = IF MissingOptions(app) THEN loggedErrors + 1 ELSE loggedErrors
    /\ dynamicConfigPromisesList' = Append(dynamicConfigPromisesList, app.appId)
    /\ fidPromise' = [fidPromise EXCEPT ![app.appId] = PendingStringPromise]
    /\ LET i == initializeGAId(app.appId, StartFetchDynamicConfig(app),
                               PendingStringPromise, PendingStringPromise, gtagCoreCalls)
       IN /\ initializationPromisesMap' =
                Put(initializationPromisesMap, app.appId, i.promise)
          /\ gtagCoreCalls' = i.core
    /\ UNCHANGED <<measurementIdToAppId, answered, held, thens, methodCalls>>
    /\ UNCHANGED <<windowFlags, caught>>
    /\ UNCHANGED retryVars
    /\ UNCHANGED liteVars
    /\ UNCHANGED signalVars
    /\ thrown' = NothingThrown
    /\ UNCHANGED <<dataLayerName, gtagName>>

\* The config request of an initialization settles: fetchDynamicConfig
\* returns or throws, the .then / .catch attached at part_001 182-184 run,
\* and initializeGAId resumes if Promise.all has settled.
ConfigFetchSettles(a, outcome) ==
    /\ configPromise[a].state = "pending"
    /\ LET r == fetchDynamicConfig(outcome)
           i == initializeGAId(a, ConfigPromiseOf(r), fidPromise[a],
                               initializationPromisesMap[a], gtagCoreCalls)
       IN /\ configPromise' = [configPromise EXCEPT ![a] = ConfigPromiseOf(r)]
          /\ measurementIdToAppId' =
                IF r.ok
                THEN Put(measurementIdToAppId, r.value.measurementId, r.value.appId)
                ELSE measurementIdToAppId
          /\ loggedErrors' = IF r.ok THEN loggedErrors ELSE loggedErrors + 1
          /\ initializationPromisesMap' =
                [initializationPromisesMap EXCEPT ![a] = i.promise]
          /\ gtagCoreCalls' = i.core
    /\ answered' = [answered EXCEPT ![a] = StatusClass(outcome.status)]
    /\ UNCHANGED <<globalInitDone, globalSetups, dynamicConfigPromisesList,
                   fidPromise, held, thens, methodCalls>>
    /\ UNCHANGED <<windowFlags, caught>>
    /\ UNCHANGED retryVars
    /\ UNCHANGED liteVars
    /\ UNCHANGED signalVars
    /\ UNCHANGED pageVars

\* installations.getId() settles, and initializeGAId resumes if Promise.all
\* has settled.
GetIdSettles(a, settled) ==
    /\ fidPromise[a].state = "pending"
    /\ fidPromise' = [fidPromise EXCEPT ![a] = settled]
    /\ LET i == initializeGAId(a, configPromise[a], settled,
                               initializationPromisesMap[a], gtagCoreCalls)
       IN /\ initializationPromisesMap' =
                [initializationPromisesMap EXCEPT ![a] = i.promise]
          /\ gtagCoreCalls' = i.core
    /\ UNCHANGED <<globalInitDone, globalSetups, dynamicConfigPromisesList,
                   measurementIdToAppId, configPromise, answered, held, thens,
                   loggedErrors, methodCalls>>
    /\ UNCHANGED <<windowFlags, caught>>
    /\ UNCHANGED retryVars
    /\ UNCHANGED liteVars
    /\ UNCHANGED signalVars
    /\ UNCHANGED pageVars

\* ------------------------------------------------- the instance methods

\* analyticsInstance.<method>(..., { global: true }): the command is handed
\* to the wrapped gtag function within the call.
MethodGlobal(a, method) ==
    /\ a \in DOMAIN initializationPromisesMap
    /\ methodCalls < MaxMethodCalls
    /\ methodCalls' = methodCalls + 1
    /\ LET w == wrappedGtag(GlobalCommand(method, a), gtagCoreCalls, held,
                            measurementIdToAppId, initializationPromisesMap)
       IN /\ gtagCoreCalls' = w.core
          /\ held' = w.held
    /\ UNCHANGED <<globalInitDone, globalSetups, initializationPromisesMap,
                   dynamicConfigPromisesList, measurementIdToAppId, configPromise,
                   fidPromise, answered, thens, loggedErrors>>
    /\ UNCHANGED <<windowFlags, caught>>
    /\ UNCHANGED retryVars
    /\ UNCHANGED liteVars
    /\ UNCHANGED signalVars
    /\ UNCHANGED pageVars

\* analyticsInstance.<method>(...) without the global option: a callback is
\* attached to initializationPromisesMap[appId] (factory.ts 185-208).
MethodScoped(a, method) ==
    /\ a \in DOMAIN initializationPromisesMap
    /\ methodCalls < MaxMethodCalls
    /\ methodCalls' = methodCalls + 1
    /\ thens' = Append(thens, [app |-> a, method |-> method])
    /\ UNCHANGED <<globalInitDone, globalSetups, initializationPromisesMap,
                   dynamicConfigPromisesList, measurementIdToAppId, configPromise,
                   fidPromise, answered, gtagCoreCalls, held, loggedErrors>>
    /\ UNCHANGED <<windowFlags, caught>>
    /\ UNCHANGED retryVars
    /\ UNCHANGED liteVars
    /\ UNCHANGED signalVars
    /\ UNCHANGED pageVars

\* analyticsInstance.setAnalyticsCollectionEnabled(enabled): a callback is
\* attached to initializationPromisesMap[appId] (functions.ts 148-157).
SetAnalyticsCollectionEnabled(a, enabled) ==
    /\ a \in DOMAIN initializationPromisesMap
    /\ methodCalls < MaxMethodCalls
    /\ methodCalls' = methodCalls + 1
    /\ thens' = Append(thens, [app |-> a, method |-> "setAnalyticsCollectionEnabled",
                               enabled |-> enabled])
    /\ UNCHANGED <<globalInitDone, globalSetups, initializationPromisesMap,
                   dynamicConfigPromisesList, measurementIdToAppId, configPromise,
                   fidPromise, answered, gtagCoreCalls, held, loggedErrors>>
    /\ UNCHANGED <<windowFlags, caught>>
    /\ UNCHANGED retryVars
    /\ UNCHANGED liteVars
    /\ UNCHANGED signalVars
    /\ UNCHANGED pageVars

\* Callbacks attached to one promise run in the order they were attached.
IsFirstThenOf(i) == \A j \in 1..(i - 1) : thens[j].app # thens[i].app

\* promise.then(callback): the callback runs when the promise has settled
\* either way.
ThenCallbackRuns_Settled(promise) == promise.state # "pending"

\* promise.then(callback): the callback runs when the promise has resolved.
ThenCallbackRuns(promise) == promise.state = "resolved"

\* The promise a method awaited has resolved: its callback destructures
\* measurementId from the value and calls the wrapped gtag function.
ThenRuns(i) ==
    /\ i \in 1..Len(thens)
    /\ IsFirstThenOf(i)
    /\ ThenCallbackRuns(initializationPromisesMap[thens[i].app])
    /\ LET a == thens[i].app
           m == MeasurementIdProperty(StringValue(initializationPromisesMap[a].value))
           w == wrappedGtag(ScopedCommand(thens[i].method, m, a), gtagCoreCalls, held,
                            measurementIdToAppId, initializationPromisesMap)
       IN IF thens[i].method = "setAnalyticsCollectionEnabled"
          THEN /\ windowFlags' = Put(windowFlags, m, ~thens[i].enabled)
               /\ UNCHANGED <<gtagCoreCalls, held>>
          ELSE /\ gtagCoreCalls' = w.core
               /\ held' = w.held
               /\ UNCHANGED windowFlags
    /\ thens' = Remove(thens, i)
    /\ UNCHANGED <<globalInitDone, globalSetups, initializationPromisesMap,
                   dynamicConfigPromisesList, measurementIdToAppId, configPromise,
                   fidPromise, answered, loggedErrors, methodCalls>>
    /\ UNCHANGED caught
    /\ UNCHANGED retryVars
    /\ UNCHANGED liteVars
    /\ UNCHANGED signalVars
    /\ UNCHANGED pageVars

\* The promise a method awaited has rejected: .catch(e => logger.error(e)).
ThenCatches(i) ==
    /\ i \in 1..Len(thens)
    /\ IsFirstThenOf(i)
    /\ initializationPromisesMap[thens[i].app].state = "rejected"
    /\ thens' = Remove(thens, i)
    /\ loggedErrors' = loggedErrors + 1
    /\ caught' = caught + 1
    /\ UNCHANGED <<globalInitDone, globalSetups, initializationPromisesMap,
                   dynamicConfigPromisesList, measurementIdToAppId, configPromise,
                   fidPromise, answered, gtagCoreCalls, held, methodCalls>>
    /\ UNCHANGED windowFlags
    /\ UNCHANGED retryVars
    /\ UNCHANGED liteVars
    /\ UNCHANGED signalVars
    /\ UNCHANGED pageVars

\* Every initialization a held command waits for has completed: the wrapped
\* gtag function forwards the command to gtagCore.
WrappedGtagForwards(i) ==
    /\ i \in 1..Len(held)
    /\ \A a \in held[i].waitsFor : initializationPromisesMap[a].state = "resolved"
    /\ gtagCoreCalls' = Append(gtagCoreCalls, held[i].call)
    /\ held' = Remove(held, i)
    /\ UNCHANGED <<globalInitDone, globalSetups, initializationPromisesMap,
                   dynamicConfigPromisesList, measurementIdToAppId, configPromise,
                   fidPromise, answered, thens, loggedErrors, methodCalls>>
    /\ UNCHANGED <<windowFlags, caught>>
    /\ UNCHANGED retryVars
    /\ UNCHANGED liteVars
    /\ UNCHANGED signalVars
    /\ UNCHANGED pageVars

\* An initialization a held command waits for has failed: the command is
\* dropped and the error logged.
WrappedGtagDrops(i) ==
    /\ i \in 1..Len(held)
    /\ \E a \in held[i].waitsFor : initializationPromisesMap[a].state = "rejected"
    /\ held' = Remove(held, i)
    /\ loggedErrors' = loggedErrors + 1
    /\ UNCHANGED <<globalInitDone, globalSetups, initializationPromisesMap,
                   dynamicConfigPromisesList, measurementIdToAppId, configPromise,
                   fidPromise, answered, gtagCoreCalls, thens, methodCalls>>
    /\ UNCHANGED <<windowFlags, caught>>
    /\ UNCHANGED retryVars
    /\ UNCHANGED liteVars
    /\ UNCHANGED signalVars
    /\ UNCHANGED pageVars

\* The outcomes a fetch attempt of call c can have.
RetryOutcomes(c) == FetchOutcomes(callApp[c].appId, {"G-1"})

RetryNext ==
    \/ \E c \in Calls, app \in FirebaseApps : FetchWithRetryMissingOptions(c, app)
    \/ \E c \in Calls, app \in FirebaseApps : FetchWithRetry(c, app)
    \/ \E c \in Calls : DelayElapses(c)
    \/ \E c \in Calls : \E o \in RetryOutcomes(c) : FetchSucceeds(c, o)
    \/ \E c \in Calls : \E o \in RetryOutcomes(c) : FetchFailsFatally(c, o)
    \/ \E c \in Calls : \E o \in RetryOutcomes(c) : FetchFailsRetriably(c, o)
    \/ \E c \in Calls : WatchdogFires(c)
    \/ Tick

SpecRetry == Init /\ [][RetryNext]_vars

\* ------------------------------------------------------------- settings

\* SettingsOptions: a name that is not given is the empty string.
SettingsOptions ==
    [dataLayerName : {"", "customDataLayer"}, gtagName : {"", "customGtag"}]

\* if (options.name) { name = options.name; } without the test.
NameAfterSettings_Always(name, option) == option

\* if (options.name) { name = options.name; }
NameAfterSettings(name, option) == IF option # "" THEN option ELSE name

\* settings(options) before the page-level setup has run.
Settings(options) ==
    /\ ~globalInitDone
    /\ dataLayerName' = NameAfterSettings(dataLayerName, options.dataLayerName)
    /\ gtagName' = NameAfterSettings(gtagName, options.gtagName)
    /\ thrown' = NothingThrown
    /\ UNCHANGED initVars
    /\ UNCHANGED retryVars
    /\ UNCHANGED liteVars
    /\ UNCHANGED signalVars

\* settings(options) after the page-level setup has run:
\* throw ERROR_FACTORY.create(AnalyticsError.ALREADY_INITIALIZED).
SettingsAlreadyInitialized(options) ==
    /\ globalInitDone
    /\ thrown' = "ALREADY_INITIALIZED"
    /\ UNCHANGED <<dataLayerName, gtagName>>
    /\ UNCHANGED initVars
    /\ UNCHANGED retryVars
    /\ UNCHANGED liteVars
    /\ UNCHANGED signalVars

\* The outcomes the config request of an initialization can have.
InitOutcomes(a) ==
    {o \in FetchOutcomes(a, MeasurementIds) : o.kind = "response" \/ o.error = NetworkError}

InitNext ==
    \/ \E app \in FirebaseApps : Factory(app)
    \/ \E a \in AppIds : \E o \in InitOutcomes(a) : ConfigFetchSettles(a, o)
    \/ \E a \in AppIds :
          \E settled \in {ResolvedStringPromise(FidOf[a]), RejectedStringPromise} :
             GetIdSettles(a, settled)
    \/ \E a \in AppIds : \E method \in Methods : MethodGlobal(a, method)
    \/ \E a \in AppIds : \E method \in Methods : MethodScoped(a, method)
    \/ \E a \in AppIds : \E enabled \in BOOLEAN : SetAnalyticsCollectionEnabled(a, enabled)
    \/ \E i \in 1..MaxMethodCalls : ThenRuns(i)
    \/ \E i \in 1..MaxMethodCalls : ThenCatches(i)
    \/ \E i \in 1..MaxMethodCalls : WrappedGtagForwards(i)
    \/ \E i \in 1..MaxMethodCalls : WrappedGtagDrops(i)

SpecInit == Init /\ [][InitNext]_vars

\* The calls of factory and settings, with the initializations they start.
FactoryNext ==
    \/ \E app \in FirebaseApps : FactoryNoAppId(app)
    \/ \E app \in FirebaseApps : FactoryAlreadyExists(app)
    \/ \E app \in FirebaseApps : Factory(app)
    \/ \E options \in SettingsOptions : Settings(options)
    \/ \E options \in SettingsOptions : SettingsAlreadyInitialized(options)
    \/ \E a \in AppIds : \E o \in InitOutcomes(a) : ConfigFetchSettles(a, o)
    \/ \E a \in AppIds :
          \E settled \in {ResolvedStringPromise(FidOf[a]), RejectedStringPromise} :
             GetIdSettles(a, settled)

SpecFactory == Init /\ [][FactoryNext]_vars

\* The calls of the document API.
LiteNext ==
    \/ \E key \in DocumentKeys : \E userData \in DocumentData :
          \E options \in SetOptions : SetDocument(key, userData, options)
    \/ \E key \in DocumentKeys : GetDocument(key)

SpecLite == Init /\ [][LiteNext]_vars

SignalNext ==
    \/ \E listener \in ListenerIds : AddEventListener(listener)
    \/ Abort

SpecSignal == Init /\ [][SignalNext]_vars

\* ---------------------------------------------------------------- claims
\* Checked under SpecRetry.

\* An error a fetch attempt failed with that is not a FirebaseError carrying
\* one of the statuses 429, 500, 503, 504.
NonRetriable(e) ==
    e # NoError /\ ~(e.name = "FirebaseError" /\ e.httpStatus \in TransientStatuses)

\* The end time the i-th delay of call c was requested for: the metadata the
\* call started from, then the metadata each retriable failure stored.
RequestedEnd(c, i) ==
    IF i = 1 THEN start[c].throttleEndTimeMillis
    ELSE persisted[c][i - 1].throttleEndTimeMillis

\* C1: within one retry chain, the k-th consecutive retriable failure stores
\* backoffCount = (the count the chain started with) + k, and the throttle end
\* times it stores never decrease.
C1_BackoffAdvances ==
    \A c \in Calls : \A i \in 1..Len(persisted[c]) :
        /\ persisted[c][i].backoffCount = start[c].backoffCount + i
        /\ i > 1 => persisted[c][i - 1].throttleEndTimeMillis
                        <= persisted[c][i].throttleEndTimeMillis

\* Some chain has failed retriably twice in a row.
C1_Witness == \E c \in Calls : Len(persisted[c]) >= 2

\* C2: right after a successful fetch the store holds no metadata for the
\* identity, and a top-level call made while a success was the latest write
\* to the identity's entry starts from backoffCount 0 with nothing to wait.
C2_SuccessClears ==
    /\ \A a \in AppIds : lastClear[a] = "success" => a \notin DOMAIN appThrottleMetadata
    /\ \A c \in Calls :
          start[c].after = "success" =>
              /\ start[c].backoffCount = 0
              /\ start[c].throttleEndTimeMillis = start[c].at

\* A chain stored metadata and then succeeded, and a later call for the same
\* identity started after that success.
C2_Witness ==
    \E c, d \in Calls :
        /\ c # d
        /\ callApp[c].appId = callApp[d].appId
        /\ pc[d] = "resolved"
        /\ Len(persisted[d]) >= 1
        /\ start[c].after = "success"

\* C3: when a fetch attempt fails with an error that is not retriable, the
\* call is rejected with that error in the same step, the identity's metadata
\* is gone from the store, and the call has armed no delay and made no fetch
\* beyond the failed attempt, then or later.
C3_FatalFailurePropagates ==
    \A c \in Calls :
        /\ (lastSettled.call = c /\ NonRetriable(lastSettled.error)) =>
              /\ pc[c] = "rejected"
              /\ ~result[c].ok
              /\ result[c].error = lastSettled.error
              /\ callApp[c].appId \notin DOMAIN appThrottleMetadata
        /\ (pc[c] = "rejected" /\ result[c].error.code \in {"network", "json", "http"}) =>
              /\ NonRetriable(result[c].error)
              /\ PendingDelays(listeners[c]) = {}
              /\ Len(listeners[c]) = fetches[c]
              /\ Len(persisted[c]) = fetches[c] - 1

\* A chain that had stored metadata has just failed with a FirebaseError whose
\* status is not transient.
C3_Witness ==
    \E c \in Calls :
        /\ lastSettled.call = c
        /\ lastSettled.error = HttpStatusError(400)
        /\ Len(persisted[c]) >= 1
        /\ pc[c] = "rejected"

\* C4: a delay the watchdog found pending is rejected with the fetch-throttle
\* error carrying the end time requested for it, its timer is cleared, the
\* call is rejected with that error and the fetch the delay stood before is
\* never dispatched; and no delay armed before the watchdog fired is still
\* pending after it.
C4_WatchdogCancelsPendingDelay ==
    \A c \in Calls : \A i \in 1..Len(listeners[c]) :
        LET d == listeners[c][i]
        IN /\ d.state = "rejected" =>
                /\ watchdog[c].state = "fired"
                /\ d.timeout = "cleared"
                /\ d.error = FetchThrottleError(RequestedEnd(c, i))
                /\ i = Len(listeners[c])
                /\ pc[c] = "rejected"
                /\ result[c] = Settled(FALSE, NoConfig, d.error)
                /\ fetches[c] = i - 1
           /\ (watchdog[c].state = "fired" /\ d.state = "pending") =>
                d.due - d.backoffMillis >= watchdog[c].due

\* The watchdog has rejected the delay that followed a retriable failure.
C4_Witness ==
    \E c \in Calls :
        /\ Len(listeners[c]) >= 2
        /\ listeners[c][Len(listeners[c])].state = "rejected"
        /\ listeners[c][Len(listeners[c])].backoffMillis > 0

\* C5: once the watchdog of a call has fired, the call dispatches no further
\* fetch attempt, and if it was waiting or had a fetch in flight at that
\* moment it ends with the fetch-throttle error.
C5_WatchdogTerminates ==
    \A c \in Calls :
        watchdog[c].state = "fired" =>
            /\ fetches[c] = watchdog[c].fetchesWhenFired
            /\ (/\ watchdog[c].pcWhenFired \in {"waiting", "attempting"}
                /\ pc[c] \in {"resolved", "rejected"})
                   => result[c].error.code = "fetch-throttle"

\* C5, fetches only: a call whose watchdog has fired dispatches no further
\* fetch attempt.
C5_NoFetchAfterWatchdog ==
    \A c \in Calls :
        watchdog[c].state = "fired" => fetches[c] = watchdog[c].fetchesWhenFired

\* C6: when the endpoint answers a fetch attempt with status 429, 500, 503 or
\* 504, the call stores metadata with the backoff advanced and waits for the
\* next attempt.
C6_TransientStatusRetried ==
    \A c \in Calls :
        (lastSettled.call = c /\ lastSettled.kind = "response"
            /\ lastSettled.answer = "transient") =>
                /\ pc[c] = "waiting"
                /\ callApp[c].appId \in DOMAIN appThrottleMetadata
                /\ Len(persisted[c]) = fetches[c]

\* ------------------------------------------------ claims: initialization

CoreCalls == {gtagCoreCalls[i] : i \in 1..Len(gtagCoreCalls)}

Registered(a) == a \in DOMAIN initializationPromisesMap

Initialized(a) == Registered(a) /\ initializationPromisesMap[a].state = "resolved"

\* The identity-setting call: a config command carrying the installation id.
IsIdentityCall(call) == call.command = "config" /\ "firebase_id" \in DOMAIN call.params

IdentityCallsOf(a) ==
    {i \in 1..Len(gtagCoreCalls) :
        gtagCoreCalls[i].by = a /\ IsIdentityCall(gtagCoreCalls[i])}

\* The identity-setting call the initialization of a owes: the measurement
\* id its config fetch returned, the installation id getId returned.
IdentityCallOwed(a) ==
    [command |-> "config",
     target |-> configPromise[a].value.measurementId,
     params |-> [firebase_id |-> fidPromise[a].value, origin |-> "firebase",
                 update |-> TRUE],
     by |-> a]

\* C7: once the config endpoint has answered an initialization's fetch with
\* a transient status (such as 503), a backoff is scheduled for the identity
\* and its config is still awaited: the fetch is retried before the
\* identity-setting call is made.
C7_TransientAnswerIsRetried ==
    \A a \in AppIds :
        answered[a] = "transient" =>
            /\ a \in DOMAIN appThrottleMetadata
            /\ configPromise[a].state = "pending"
            /\ IdentityCallsOf(a) = {}

\* C8: when the initialization of an identity has completed, gtagCore has
\* been called with exactly ("config", M, {firebase_id: F, origin:
\* "firebase", update: true}), M the measurement id the config fetch
\* returned and F the installation id, and with no other identity-setting
\* arguments for that identity.
C8_IdentityCallArguments ==
    \A a \in AppIds :
        Initialized(a) =>
            /\ IdentityCallOwed(a) \in CoreCalls
            /\ fidPromise[a].value = FidOf[a]
            /\ answered[a] = "ok" =>
                  configPromise[a].value.measurementId \in MeasurementIds
            /\ \A i \in IdentityCallsOf(a) : gtagCoreCalls[i] = IdentityCallOwed(a)

C8_Witness ==
    /\ \A a \in AppIds : Initialized(a) /\ answered[a] = "ok"
    /\ \E a, b \in AppIds :
          configPromise[a].value.measurementId # configPromise[b].value.measurementId
    /\ \A a \in AppIds : IdentityCallOwed(a) \in CoreCalls

\* C9: the initialization promise of an identity is resolved only when both
\* its installation id and its dynamic config have been obtained, and then
\* gtagCore has received the identity-setting call exactly once for that
\* identity; it never receives it twice.
C9_ResolvesAfterBothWithOneCall ==
    \A a \in AppIds :
        /\ Cardinality(IdentityCallsOf(a)) <= 1
        /\ Initialized(a) =>
              /\ configPromise[a].state = "resolved"
              /\ fidPromise[a].state = "resolved"
              /\ Cardinality(IdentityCallsOf(a)) = 1

C9_Witness ==
    \E a, b \in AppIds :
        /\ Initialized(a) /\ Cardinality(IdentityCallsOf(a)) = 1
        /\ Registered(b) /\ initializationPromisesMap[b].state = "pending"
        /\ configPromise[b].state = "resolved" /\ fidPromise[b].state = "pending"
        /\ IdentityCallsOf(b) = {}

\* C10: every event or config command that an analytics instance's method
\* issued and that has reached gtagCore is preceded there by the
\* identity-setting call of that instance's identity; the identity-setting
\* call is the first config command of the identity.
C10_IdentityCallFirst ==
    \A i \in 1..Len(gtagCoreCalls) :
        (gtagCoreCalls[i].command \in {"event", "config"}
            /\ ~IsIdentityCall(gtagCoreCalls[i])) =>
                \E j \in IdentityCallsOf(gtagCoreCalls[i].by) : j < i

C10_Witness ==
    \E i \in 1..Len(gtagCoreCalls) :
        /\ gtagCoreCalls[i].command \in {"event", "config"}
        /\ ~IsIdentityCall(gtagCoreCalls[i])
        /\ \E j \in IdentityCallsOf(gtagCoreCalls[i].by) : j < i
        /\ \E b \in AppIds : Registered(b) /\ ~Initialized(b)

\* --------------------------------------------- claims: factory and settings

\* C11: over any sequence of factory calls, failing ones included, the
\* page-level setup has run at most once, and it has run exactly when
\* globalInitDone is set.
C11_GlobalSetupAtMostOnce ==
    /\ globalSetups <= 1
    /\ globalInitDone <=> globalSetups = 1

C11_Witness ==
    /\ DOMAIN initializationPromisesMap = AppIds
    /\ thrown = "ALREADY_EXISTS"
    /\ globalSetups = 1

\* settings(options), whichever branch it takes.
settings(options) == Settings(options) \/ SettingsAlreadyInitialized(options)

\* C12: a settings() call after the page-level setup has run throws
\* ALREADY_INITIALIZED and leaves dataLayerName and gtagName as they were; a
\* call before it returns and changes exactly the names its options give.
C12_SettingsGate ==
    [][\A options \in SettingsOptions :
          settings(options) =>
             IF globalInitDone
             THEN /\ thrown' = "ALREADY_INITIALIZED"
                  /\ UNCHANGED <<dataLayerName, gtagName>>
             ELSE /\ thrown' = NothingThrown
                  /\ dataLayerName' = IF options.dataLayerName = ""
                                      THEN dataLayerName ELSE options.dataLayerName
                  /\ gtagName' = IF options.gtagName = ""
                                 THEN gtagName ELSE options.gtagName]_vars

C12_Witness ==
    /\ thrown = "ALREADY_INITIALIZED"
    /\ dataLayerName = "customDataLayer"
    /\ gtagName = "gtag"

\* factory(app, installations), whichever branch it takes.
factory(app) == FactoryNoAppId(app) \/ FactoryAlreadyExists(app) \/ Factory(app)

\* The initializations started for an identity: one config fetch pushed each.
InitializationsOf(a) ==
    {i \in 1..Len(dynamicConfigPromisesList) : dynamicConfigPromisesList[i] = a}

\* C13: a factory call for an identity that has an entry in
\* initializationPromisesMap throws ALREADY_EXISTS, starts no config fetch
\* and no getId call and leaves the entry as it is; so no identity ever has
\* more than one initialization.
C13_OneInitializationPerIdentity ==
    [][/\ \A a \in AppIds : Cardinality(InitializationsOf(a))' <= 1
       /\ \A app \in FirebaseApps :
            (factory(app) /\ app.appId \in DOMAIN initializationPromisesMap) =>
                /\ thrown' = "ALREADY_EXISTS"
                /\ UNCHANGED <<initializationPromisesMap, dynamicConfigPromisesList,
                               configPromise, fidPromise, answered, gtagCoreCalls,
                               globalInitDone, globalSetups>>]_vars

C13_Witness ==
    \E a \in AppIds :
        /\ thrown = "ALREADY_EXISTS"
        /\ DOMAIN initializationPromisesMap = {a}
        /\ initializationPromisesMap[a].state = "resolved"
        /\ Cardinality(InitializationsOf(a)) = 1

\* C14: a factory call for an app without an appId throws NO_GA_ID and
\* changes nothing else: the page-level setup does not run, no entry is put
\* into initializationPromisesMap, no config fetch and no getId call start.
C14_NoAppIdChangesNothing ==
    [][\A app \in FirebaseApps :
          (factory(app) /\ app.appId = "") =>
              /\ thrown' = "NO_GA_ID"
              /\ UNCHANGED <<initVars, dataLayerName, gtagName>>]_vars

C14_Witness ==
    /\ thrown = "NO_GA_ID"
    /\ ~globalInitDone
    /\ globalSetups = 0
    /\ initializationPromisesMap = << >>
    /\ dynamicConfigPromisesList = << >>

\* -------------------------------------- claims: configuration and methods

\* A call made with an app that lacks the API key or the appId has failed
\* with the configuration error, has issued no request and has armed neither
\* a watchdog nor a delay.
FailedBeforeAnyRequest(c) ==
    /\ pc[c] = "rejected"
    /\ result[c] = Settled(FALSE, NoConfig, NoApiKeyError)
    /\ fetches[c] = 0
    /\ watchdog[c] = NoWatchdog
    /\ listeners[c] = << >>

\* C15: fetchDynamicConfig and fetchDynamicConfigWithRetry fail with the
\* configuration error when the API key or the appId is absent, before any
\* network call: the promise is rejected at once, no request is issued, no
\* watchdog is armed and the throttle metadata store is left as it was.
C15_MissingOptionsFailFirst ==
    [][/\ \A app \in FirebaseApps :
            (app.apiKey = "" \/ app.appId = "") =>
                StartFetchDynamicConfig(app) =
                    ConfigPromiseOf(Settled(FALSE, NoConfig, NoApiKeyError))
       /\ \A c \in Calls :
            (pc'[c] # "idle" /\ (callApp'[c].apiKey = "" \/ callApp'[c].appId = "")) =>
                /\ FailedBeforeAnyRequest(c)'
                /\ pc[c] = "idle" => UNCHANGED appThrottleMetadata]_vars

C15_Witness ==
    \E c \in Calls :
        /\ FailedBeforeAnyRequest(c)
        /\ callApp[c].apiKey = ""
        /\ callApp[c].appId \in DOMAIN appThrottleMetadata

\* C16: a method called without the global option on an instance whose
\* initialization promise is rejected returns without throwing, and when its
\* callback chain settles the error is logged and neither gtagCore, nor the
\* wrapped gtag function, nor a window flag has been touched for that call.
C16_RejectedPromiseIsLogged ==
    [][/\ Len(thens') = Len(thens) + 1 =>
            /\ thrown' = NothingThrown
            /\ UNCHANGED <<gtagCoreCalls, held, windowFlags, loggedErrors>>
       /\ \A i \in 1..Len(thens) :
            (/\ initializationPromisesMap[thens[i].app].state = "rejected"
             /\ thens' = Remove(thens, i)) =>
                /\ loggedErrors' = loggedErrors + 1
                /\ UNCHANGED <<gtagCoreCalls, held, windowFlags, thrown>>]_vars

C16_Witness ==
    /\ caught >= 1
    /\ thens = << >>
    /\ held = << >>
    /\ gtagCoreCalls = << >>
    /\ windowFlags = << >>
    /\ thrown = NothingThrown

\* ------------------------------------------------ claims: abortable delay

\* C17: signal.abort() after a delay has resolved does nothing to that
\* delay: it stays resolved, it is not rejected, and the call that awaited
\* it goes on as it was.
C17_AbortAfterResolveIsNoOp ==
    [][\A c \in Calls :
          /\ \A i \in 1..Len(listeners[c]) :
                listeners[c][i].state = "resolved" =>
                    listeners'[c][i] = listeners[c][i]
          /\ (/\ watchdog[c].state = "armed"
              /\ watchdog'[c].state = "fired"
              /\ PendingDelays(listeners[c]) = {}) =>
                    /\ pc'[c] = pc[c]
                    /\ result'[c] = result[c]]_vars

C17_Witness ==
    \E c \in Calls :
        /\ watchdog[c].state = "fired"
        /\ watchdog[c].pcWhenFired = "attempting"
        /\ listeners[c] # << >>
        /\ \A i \in 1..Len(listeners[c]) : listeners[c][i].state = "resolved"
        /\ pc[c] = "resolved"

\* ------------------------------------------------------- claims: documents

\* The document key the last getDocument call was made for.
Read(key) == lastSnapshot # NoSnapshot /\ lastSnapshot._key = key

\* C18: when the last write to a document was a merge write, getDocument
\* yields the union of the fields written so far, each with the value of the
\* latest write that named it: fields the merge write does not name are kept.
C18_MergeKeepsFields ==
    \A key \in DocumentKeys :
        (Read(key) /\ lastWrite[key].kind = "merge") =>
            /\ data(lastSnapshot) = written[key]
            /\ \A name \in DOMAIN lastWrite[key].data :
                  data(lastSnapshot).value[name] = lastWrite[key].data[name]

C18_Witness ==
    \E key \in DocumentKeys :
        /\ Read(key)
        /\ lastWrite[key] = [kind |-> "merge", data |-> [name \in {"bar"} |-> "bar"]]
        /\ data(lastSnapshot) = DefinedData([foo |-> "foo", bar |-> "bar"])

\* C19: when the last write to a document was a set without merge options,
\* getDocument yields a snapshot that exists and whose data() is exactly the
\* data of that write.
C19_SetReplaces ==
    \A key \in DocumentKeys :
        (Read(key) /\ lastWrite[key].kind = "set") =>
            /\ exists(lastSnapshot)
            /\ data(lastSnapshot) = DefinedData(lastWrite[key].data)

C19_Witness ==
    \E key \in DocumentKeys :
        /\ Read(key)
        /\ lastWrite[key] = [kind |-> "set", data |-> [name \in {"foo"} |-> "bar"]]
        /\ data(lastSnapshot) = DefinedData([name \in {"foo"} |-> "bar"])
        /\ written[key] = DefinedData([name \in {"foo"} |-> "bar"])

\* C20: getDocument for a key that was never written yields a snapshot whose
\* exists is false and whose data() is undefined; for every snapshot exists
\* is true exactly when data() is defined.
C20_MissingDocumentSnapshot ==
    \A key \in DocumentKeys :
        Read(key) =>
            /\ lastWrite[key].kind = "none" => ~exists(lastSnapshot)
            /\ lastWrite[key].kind = "none" => data(lastSnapshot) = UndefinedData
            /\ exists(lastSnapshot) <=> data(lastSnapshot).defined

C20_Witness ==
    \E key, other \in DocumentKeys :
        /\ Read(key)
        /\ lastWrite[key].kind = "none"
        /\ ~exists(lastSnapshot)
        /\ data(lastSnapshot) = UndefinedData
        /\ lastWrite[other].kind # "none"

\* ------------------------------------------------ claims: concurrent calls

\* The step in which call c dispatches a fetch attempt.
Dispatches(c) == pc[c] = "waiting" /\ pc'[c] = "attempting"

\* C21: no fetch attempt for an application identity is dispatched at a time
\* earlier than the throttleEndTimeMillis stored for that identity at that
\* moment, whichever top-level call the attempt belongs to.
C21_NoFetchBeforeStoredEnd ==
    [][\A c \in Calls :
          (Dispatches(c) /\ callApp[c].appId \in DOMAIN appThrottleMetadata) =>
              now >= appThrottleMetadata[callApp[c].appId].throttleEndTimeMillis]_vars

\* C21 for a call that has the identity to itself: every attempt it
\* dispatches comes no earlier than the stored end time.
C21_AloneNoFetchBeforeStoredEnd ==
    [][\A c \in Calls :
          (/\ Dispatches(c)
           /\ callApp[c].appId \in DOMAIN appThrottleMetadata
           /\ \A d \in Calls \ {c} : callApp[d].appId # callApp[c].appId) =>
              now >= appThrottleMetadata[callApp[c].appId].throttleEndTimeMillis]_vars

\* The step in which the watchdog of call c fires.
WatchdogAborts(c) == watchdog[c].state = "armed" /\ watchdog'[c].state = "fired"

\* The step in which top-level call c starts.
Starts(c) == pc[c] = "idle" /\ pc'[c] = "waiting"

\* C22: a watchdog-triggered abort leaves the stored throttle metadata
\* unchanged, and a top-level call that finds metadata stored for its
\* identity starts from it: with the stored backoffCount, and with a first
\* delay, and so a first fetch, no earlier than the stored
\* throttleEndTimeMillis.
C22_AbortKeepsMetadata ==
    [][\A c \in Calls :
          /\ WatchdogAborts(c) => appThrottleMetadata' = appThrottleMetadata
          /\ (Starts(c) /\ callApp'[c].appId \in DOMAIN appThrottleMetadata) =>
                LET stored == appThrottleMetadata[callApp'[c].appId]
                IN /\ attempt'[c] = stored
                   /\ start'[c].backoffCount = stored.backoffCount
                   /\ start'[c].throttleEndTimeMillis = stored.throttleEndTimeMillis
                   /\ listeners'[c][1].due >= stored.throttleEndTimeMillis
          /\ (Dispatches(c) /\ fetches[c] = 0) =>
                now >= start[c].throttleEndTimeMillis]_vars

\* A call was aborted by its watchdog while it waited with a backoff stored;
\* a later call for the same identity started from that entry and has
\* dispatched its first fetch.
C22_Witness ==
    \E c, d \in Calls :
        /\ c # d
        /\ callApp[c].appId = callApp[d].appId
        /\ watchdog[d].state = "fired"
        /\ watchdog[d].pcWhenFired = "waiting"
        /\ result[d].error.code = "fetch-throttle"
        /\ start[c].at >= watchdog[d].due
        /\ start[c].backoffCount >= 1
        /\ start[c].throttleEndTimeMillis > start[c].at
        /\ fetches[c] >= 1

\* The step in which a delay of call d is rejected.
DelayRejected(d) ==
    \E i \in 1..Len(listeners[d]) :
        listeners[d][i].state = "pending" /\ listeners'[d][i].state = "rejected"

\* C23: the watchdog of one top-level call touches no delay, no position and
\* no result of another call, and a delay is rejected only by the watchdog
\* of the call that armed it.
C23_OwnSignalAndWatchdog ==
    [][\A c \in Calls :
          /\ WatchdogAborts(c) =>
                \A d \in Calls \ {c} :
                    /\ listeners'[d] = listeners[d]
                    /\ pc'[d] = pc[d]
                    /\ result'[d] = result[d]
                    /\ watchdog'[d] = watchdog[d]
          /\ DelayRejected(c) => WatchdogAborts(c)]_vars

\* The watchdog of one call has ended it with the throttle error while
\* another call for the same identity, started before that, is still inside
\* a delay with its own watchdog armed.
C23_Witness ==
    \E c, d \in Calls :
        /\ c # d
        /\ callApp[c].appId = callApp[d].appId
        /\ watchdog[c].state = "fired"
        /\ watchdog[c].pcWhenFired = "waiting"
        /\ result[c].error.code = "fetch-throttle"
        /\ start[d].at < watchdog[c].due
        /\ now >= watchdog[c].due
        /\ pc[d] = "waiting"
        /\ PendingDelays(listeners[d]) # {}
        /\ watchdog[d].state = "armed"

\* The step in which call c arms a delay.
Arms(c) == Len(listeners'[c]) = Len(listeners[c]) + 1

\* C24: the wait of a delay is max(throttleEndTimeMillis - now, 0) at the
\* moment it is armed, never negative; a delay whose end time is not later
\* than that moment is due at once, and resolves at the time it was armed.
C24_PastEndIsReadyNow ==
    [][\A c \in Calls :
          /\ Arms(c) =>
                LET d == listeners'[c][Len(listeners'[c])]
                IN /\ d.backoffMillis = Max(d.throttleEndTimeMillis - now, 0)
                   /\ d.backoffMillis >= 0
                   /\ d.due = now + d.backoffMillis
                   /\ d.throttleEndTimeMillis <= now =>
                         /\ d.backoffMillis = 0
                         /\ d.due = now
          /\ \A i \in 1..Len(listeners[c]) :
                (/\ listeners[c][i].state = "pending"
                 /\ listeners'[c][i].state = "resolved"
                 /\ listeners[c][i].backoffMillis = 0) =>
                       /\ now = listeners[c][i].due
                       /\ now' = now]_vars

\* A delay was armed with an end time already past, and has resolved.
C24_Witness ==
    \E c \in Calls : \E i \in 1..Len(listeners[c]) :
        /\ listeners[c][i].throttleEndTimeMillis < listeners[c][i].due
        /\ listeners[c][i].backoffMillis = 0
        /\ listeners[c][i].state = "resolved"
        /\ now = listeners[c][i].due

\* ------------------------------------------------ claims: abort signal

\* The listeners abort() call number n invoked, in the order it invoked them.
InvokedBy(n) ==
    LET InCall(e) == e.call = n
        es == SelectSeq(invocations, InCall)
    IN [i \in 1..Len(es) |-> es[i].listener]

\* C25: each abort() call invokes the listeners registered by then, each
\* once and in registration order; listeners stay registered, so a later
\* abort() call invokes those of the earlier one again.
C25_AbortInvokesAllInOrder ==
    /\ Len(lengthAtAbort) = aborts
    /\ \A n \in 1..aborts :
          /\ lengthAtAbort[n] <= Len(signalListeners)
          /\ InvokedBy(n) = SubSeq(signalListeners, 1, lengthAtAbort[n])
          /\ \A k \in 1..(n - 1) : lengthAtAbort[k] <= lengthAtAbort[n]

\* abort() was called twice on a signal with listeners; the second call
\* came after one more registration.
C25_Witness ==
    /\ aborts = 2
    /\ lengthAtAbort[1] >= 2
    /\ lengthAtAbort[2] > lengthAtAbort[1]
    /\ signalListeners[1] # signalListeners[2]
    /\ Len(invocations) = lengthAtAbort[1] + lengthAtAbort[2]

\* ------------------------------------------------ claims: stored metadata

\* A fetch attempt has been made for identity a.
Attempted(a) == \E c \in Calls : callApp[c].appId = a /\ fetches[c] >= 1

\* C26 as stated: once a fetch attempt has been made for an identity, and
\* until a success or a non-retriable failure, metadata is stored for it.
C26_CreatedOnFirstAttempt ==
    \A a \in AppIds :
        (Attempted(a) /\ lastClear[a] \notin {"success", "fatal"}) =>
            a \in DOMAIN appThrottleMetadata

\* The step in which call c meets a retriable failure.
FailsRetriably(c) ==
    /\ pc[c] = "attempting"
    /\ pc'[c] = "waiting"
    /\ lastSettled'.call = c
    /\ isRetriableError(lastSettled'.error)

\* The step in which call c succeeds or meets a non-retriable failure.
SucceedsOrFailsFatally(c) ==
    /\ pc[c] = "attempting"
    /\ pc'[c] \in {"resolved", "rejected"}
    /\ lastSettled'.call = c
    /\ ~isRetriableError(lastSettled'.error)

\* C26, amended: a call that finds nothing stored starts with backoffCount =
\* 0 and throttleEndTimeMillis = now, held by the call and not stored.  An
\* entry is written only by a retriable failure, with the failing attempt's
\* backoffCount plus one, and removed only by a success or a non-retriable
\* failure for its identity.
C26_StoredByFirstRetriableFailure ==
    [][/\ \A c \in Calls :
             Starts(c) =>
                /\ appThrottleMetadata' = appThrottleMetadata
                /\ callApp'[c].appId \notin DOMAIN appThrottleMetadata =>
                      attempt'[c] = ThrottleMetadataOf(0, now)
       /\ \A a \in AppIds :
             /\ (/\ a \in DOMAIN appThrottleMetadata'
                 /\ \/ a \notin DOMAIN appThrottleMetadata
                    \/ appThrottleMetadata'[a] # appThrottleMetadata[a]) =>
                   \E c \in Calls :
                      /\ callApp[c].appId = a
                      /\ FailsRetriably(c)
                      /\ appThrottleMetadata'[a].backoffCount =
                            attempt[c].backoffCount + 1
                      /\ appThrottleMetadata'[a].backoffCount >= 1
             /\ (a \in DOMAIN appThrottleMetadata
                    /\ a \notin DOMAIN appThrottleMetadata') =>
                   \E c \in Calls :
                      callApp[c].appId = a /\ SucceedsOrFailsFatally(c)]_vars

\* A call that found nothing stored has met its first retriable failure:
\* the entry now stored is the one it wrote, with backoffCount 1.
C26_Witness ==
    \E c \in Calls :
        /\ start[c].after = "never"
        /\ start[c].backoffCount = 0
        /\ start[c].throttleEndTimeMillis = start[c].at
        /\ Len(persisted[c]) = 1
        /\ pc[c] = "waiting"
        /\ callApp[c].appId \in DOMAIN appThrottleMetadata
        /\ appThrottleMetadata[callApp[c].appId] = persisted[c][1]
        /\ persisted[c][1].backoffCount = 1

\* ------------------------------------------------ claims: what callers see

\* A retriable failure: a FirebaseError with a transient status.
Retriable(e) == e.name = "FirebaseError" /\ e.httpStatus \in TransientStatuses

\* C27: a top-level call that fails does so with the configuration error,
\* with the fetch-throttle error, or with a failure that is not retriable;
\* the step in which an attempt meets a retriable failure settles nothing.
C27_RetriableFailureNotSurfaced ==
    [][\A c \in Calls :
          /\ pc'[c] = "rejected" =>
                /\ result'[c].error # NoError
                /\ ~Retriable(result'[c].error)
                /\ \/ result'[c].error = NoApiKeyError
                   \/ result'[c].error.code = "fetch-throttle"
                   \/ result'[c].error = lastSettled'.error
                   \/ pc[c] = "rejected"
          /\ (lastSettled'.call = c /\ Retriable(lastSettled'.error)) =>
                /\ pc'[c] = "waiting"
                /\ result'[c] = result[c]]_vars

\* A call has met a retriable failure, went on, and failed later for
\* another reason.
C27_Witness ==
    \E c \in Calls :
        /\ Len(persisted[c]) >= 1
        /\ pc[c] = "rejected"
        /\ result[c].error # NoError
        /\ ~Retriable(result[c].error)

\* ------------------------------------------------ claims: instance methods

\* The commands the wrapped gtag function has been handed and holds back.
HeldCalls == {held[i].call : i \in 1..Len(held)}

\* The event commands sent by logEvent without the global option.
ScopedEvents ==
    {call \in CoreCalls \cup HeldCalls :
        call.command = "event" /\ "send_to" \in DOMAIN call.params}

\* C28: the event command of a logEvent call without the global option
\* carries, as send_to, the measurement id fetched for the identity of the
\* instance, and never undefined.
C28_SendToIsMeasurementId ==
    \A call \in ScopedEvents :
        /\ call.params.send_to # Undefined
        /\ call.params.send_to = configPromise[call.by].value.measurementId

\* A command as the global branch of a method sends it: an event for
\* logEvent and a set for the others, naming no measurement id.
IsGlobalForm(call, method) ==
    /\ call.command = (IF method = "logEvent" THEN "event" ELSE "set")
    /\ call.command # "config"
    /\ "send_to" \notin DOMAIN call.params

\* C29: a method called with the global option hands the wrapped gtag
\* function one command within the call, an event without send_to or a set,
\* and attaches nothing to the identity's promise, whatever state that
\* promise is in.
C29_GlobalCallsAreSynchronous ==
    [][\A a \in AppIds, method \in Methods :
          MethodGlobal(a, method) =>
             /\ thens' = thens
             /\ \/ /\ Len(gtagCoreCalls') = Len(gtagCoreCalls) + 1
                   /\ SubSeq(gtagCoreCalls', 1, Len(gtagCoreCalls)) = gtagCoreCalls
                   /\ held' = held
                   /\ IsGlobalForm(gtagCoreCalls'[Len(gtagCoreCalls')], method)
                \/ /\ Len(held') = Len(held) + 1
                   /\ SubSeq(held', 1, Len(held)) = held
                   /\ gtagCoreCalls' = gtagCoreCalls
                   /\ IsGlobalForm(held'[Len(held')].call, method)]_vars

\* A method was called with the global option while the promise of its
\* identity was pending, or after it was rejected, and its command has
\* reached the wrapped gtag function.
C29_Witness ==
    \E a \in DOMAIN initializationPromisesMap :
        /\ initializationPromisesMap[a].state \in {"pending", "rejected"}
        /\ methodCalls >= 1
        /\ thens = << >>
        /\ caught = 0
        /\ \E call \in CoreCalls \cup HeldCalls :
              /\ call.by = a
              /\ call.command \in {"event", "set"}
              /\ "send_to" \notin DOMAIN call.params

\* ------------------------------------------------ claims: failed initialization

\* The config fetch or the getId() of identity a has failed.
InitializationFailed(a) ==
    /\ Registered(a)
    /\ \/ configPromise[a].state = "rejected"
       \/ fidPromise[a].state = "rejected"

\* The commands initializeGAId sends for an identity: 'js' and the
\* identity-setting config call.
InitializationCallsOf(a) ==
    {i \in 1..Len(gtagCoreCalls) :
        /\ gtagCoreCalls[i].by = a
        /\ \/ gtagCoreCalls[i].command = "js"
           \/ IsIdentityCall(gtagCoreCalls[i])}

\* C30: when the config fetch or getId() of an identity has failed, the
\* initialization promise of the identity is rejected and gtagCore has
\* received neither the 'js' command nor the identity-setting config call
\* for it.
C30_FailedInitializationSendsNothing ==
    \A a \in AppIds :
        InitializationFailed(a) =>
            /\ initializationPromisesMap[a].state = "rejected"
            /\ InitializationCallsOf(a) = {}

\* The config fetch of one identity has failed; for another the config has
\* arrived and getId() has failed.
C30_Witness ==
    \E a, b \in AppIds :
        /\ a # b
        /\ Registered(a) /\ configPromise[a].state = "rejected"
        /\ Registered(b) /\ configPromise[b].state = "resolved"
        /\ fidPromise[b].state = "rejected"
        /\ initializationPromisesMap[a].state = "rejected"
        /\ initializationPromisesMap[b].state = "rejected"

\* ------------------------------------------------ claims: registered identities

\* C31: an identity once registered stays registered, with the one
\* initialization it was given: no entry leaves initializationPromisesMap, a
\* rejected entry stays as it is, and every factory call for a registered
\* identity, rejected or not, throws ALREADY_EXISTS and starts nothing.
C31_RegisteredIdentityStaysRegistered ==
    [][/\ \A a \in DOMAIN initializationPromisesMap :
             /\ a \in DOMAIN initializationPromisesMap'
             /\ InitializationsOf(a)' = InitializationsOf(a)
             /\ initializationPromisesMap[a].state = "rejected" =>
                   initializationPromisesMap'[a] = initializationPromisesMap[a]
       /\ \A app \in FirebaseApps :
             (factory(app) /\ Registered(app.appId)) =>
                 /\ thrown' = "ALREADY_EXISTS"
                 /\ initializationPromisesMap' = initializationPromisesMap
                 /\ dynamicConfigPromisesList' = dynamicConfigPromisesList]_vars

\* An identity was registered by an app without an API key, so that its
\* initialization failed at once; a later factory call for it has thrown
\* ALREADY_EXISTS.
C31_Witness ==
    \E a \in AppIds :
        /\ thrown = "ALREADY_EXISTS"
        /\ DOMAIN initializationPromisesMap = {a}
        /\ initializationPromisesMap[a].state = "rejected"
        /\ configPromise[a].error = NoApiKeyError
        /\ Cardinality(InitializationsOf(a)) = 1

\* ------------------------------------------------ claims: chains and the store

\* The entry a chain wrote last.
LastPersisted(c) == persisted[c][Len(persisted[c])]

\* C32: the k-th retriable failure of a chain writes backoffCount = (the
\* count the chain started with) + k, one more than the count of the chain's
\* own previous step, whatever the store holds for the identity at that
\* moment.
C32_ChainCountsItsOwnSteps ==
    [][\A c \in Calls :
          FailsRetriably(c) =>
             LET a == callApp[c].appId
             IN /\ Len(persisted'[c]) = Len(persisted[c]) + 1
                /\ a \in DOMAIN appThrottleMetadata'
                /\ appThrottleMetadata'[a] = persisted'[c][Len(persisted'[c])]
                /\ appThrottleMetadata'[a].backoffCount = attempt[c].backoffCount + 1
                /\ appThrottleMetadata'[a].backoffCount =
                      start[c].backoffCount + Len(persisted'[c])
                /\ appThrottleMetadata'[a].throttleEndTimeMillis =
                      now + calculateBackoffMillis(attempt[c].backoffCount)]_vars

\* Two chains for one identity are under way; the entry in the store is the
\* one chain c wrote last, over an entry of chain d with a higher
\* backoffCount and a later throttleEndTimeMillis.
C32_Witness ==
    \E c, d \in Calls :
        /\ c # d
        /\ callApp[c].appId = callApp[d].appId
        /\ pc[c] = "waiting" /\ pc[d] = "waiting"
        /\ Len(persisted[c]) >= 1 /\ Len(persisted[d]) >= 1
        /\ callApp[c].appId \in DOMAIN appThrottleMetadata
        /\ appThrottleMetadata[callApp[c].appId] = LastPersisted(c)
        /\ LastPersisted(d).backoffCount > LastPersisted(c).backoffCount
        /\ LastPersisted(d).throttleEndTimeMillis > LastPersisted(c).throttleEndTimeMillis

\* Chain d wrote an entry and then succeeded, which deleted the entry; chain
\* c, which had started before that success, has written an entry since.
C32_RecreatedAfterSuccess ==
    \E c, d \in Calls :
        /\ c # d
        /\ callApp[c].appId = callApp[d].appId
        /\ pc[d] = "resolved" /\ Len(persisted[d]) >= 1
        /\ pc[c] = "waiting" /\ Len(persisted[c]) >= 1
        /\ start[c].after # "success"
        /\ callApp[c].appId \in DOMAIN appThrottleMetadata
        /\ appThrottleMetadata[callApp[c].appId] = LastPersisted(c)

\* ------------------------------------------------ claims: delays of one call

\* The delays call c has armed so far: one when it starts, one after each
\* retriable failure.
DelaysArmed(c) == IF watchdog[c].state = "none" THEN 0 ELSE 1 + Len(persisted[c])

RejectedDelays(ls) == {i \in 1..Len(ls) : ls[i].state = "rejected"}

\* C33: a call has at most one delay pending, and none while a fetch of it
\* is in flight; its signal has one listener per delay it has armed; and
\* the signal's abort() has rejected at most one delay.
C33_OneDelayAtATime ==
    \A c \in Calls :
        /\ Cardinality(PendingDelays(listeners[c])) <= 1
        /\ PendingDelays(listeners[c]) \subseteq {Len(listeners[c])}
        /\ pc[c] = "attempting" => PendingDelays(listeners[c]) = {}
        /\ Len(listeners[c]) = DelaysArmed(c)
        /\ Cardinality(RejectedDelays(listeners[c])) <= 1
        /\ RejectedDelays(listeners[c]) # {} => watchdog[c].state = "fired"

\* A call has armed a second delay after a retriable failure, the first
\* having resolved, and the watchdog has rejected the second.
C33_Witness ==
    \E c \in Calls :
        /\ Len(listeners[c]) >= 2
        /\ listeners[c][1].state = "resolved"
        /\ watchdog[c].state = "fired"
        /\ RejectedDelays(listeners[c]) = {Len(listeners[c])}
        /\ PendingDelays(listeners[c]) = {}

====
